---- MODULE Spec2Model ----
(***************************************************************************)
(* A model of the VeChain MCP server: the JSON-schema -> zod bridge        *)
(* (utils.ts), the tool aggregation and the two dispatcher callbacks       *)
(* (server.ts), the streamable-HTTP request handling (server.ts) and the   *)
(* network-backed tool callbacks (tools.ts).                               *)
(*                                                                         *)
(* JSON values, schema documents and zod validators are records with the   *)
(* same fields whatever their kind, so that any two of them compare.       *)
(***************************************************************************)
EXTENDS Integers, Sequences, FiniteSets, TLC

VARIABLES
    \* --- the schema bridge on one document (utils.ts), under SpecSchema
    doc,            \* the schema document handed to the compiler
    spc,            \* position: "start" | "compiled" | "threw" | "built" | "resolved"
    compiled,       \* what jsonSchemaToZodRoot(doc) returned
    rawInput,       \* the raw arguments of the call being resolved
    resolved,       \* what parseToolInput returned or threw
    \* --- the server and its tool calls (server.ts), under Spec
    phase,          \* "off" | "init" | "listed" | "created" | "serving" | "failed"
    goatList,       \* listOfTools(): the descriptors of the Goat SDK provider
    toolSchemaMap,  \* the registry buildToolZodMap built: tool name -> validator
    registeredTools,\* the tools registered on the McpServer: name -> provider
    calls,          \* the tool calls: name, arguments, position, outcome
    invocations,    \* every invocation of a provider handler, in order
    compileCount,   \* per tool name: how many times a schema was compiled for it
    catalog,        \* the inputSchema registered for each Goat tool
    proc,           \* the process: USE_STREAMABLE_HTTP, the transport started, the exit code
    \* --- the POST /mcp requests on the shared server (server.ts), under SpecHttp
    sdk,            \* how the installed MCP SDK treats a second connect
    slot,           \* the transport the shared server is connected to (0: none)
    reqs,           \* the POST requests: position, captured transport, reply
    \* --- the calls of the network-backed tools (tools.ts), under SpecNet
    net,            \* per call: tool, position, abort timer, response, outcome
    \* --- the registry built from a list of descriptors (utils.ts), under SpecRegistry
    regBuild        \* the list, the position, and the call being resolved

schemaVars == <<doc, spc, compiled, rawInput, resolved>>
serverVars == <<phase, goatList, registeredTools, calls, invocations,
                compileCount, catalog, proc>>
httpVars == <<sdk, slot, reqs>>
netVars == <<net>>
regVars == <<regBuild>>

vars == <<doc, spc, compiled, rawInput, resolved, phase, goatList, toolSchemaMap,
          registeredTools, calls, invocations, compileCount, catalog, proc,
          sdk, slot, reqs, net, regBuild>>

-----------------------------------------------------------------------------
(* JSON values.  t is the kind; s the text of a string ("true"/"false" of a *)
(* boolean); n twice the value of a number (so that 1.5 is 3 and a number  *)
(* is an integer iff n is even); f the fields of an object; e the elements *)
(* of an array.                                                            *)

NoF == [k \in {} |-> 0]

J(t, s, n, f, e) == [t |-> t, s |-> s, n |-> n, f |-> f, e |-> e]

Undef == J("undefined", "", 0, NoF, <<>>)
JNull == J("null", "", 0, NoF, <<>>)
JTrue == J("boolean", "true", 0, NoF, <<>>)
JFalse == J("boolean", "false", 0, NoF, <<>>)
JS(s) == J("string", s, 0, NoF, <<>>)
JN(k) == J("number", "", 2 * k, NoF, <<>>)
JHalf(k) == J("number", "", 2 * k + 1, NoF, <<>>)
JO(f) == J("object", "", 0, f, <<>>)
JA(e) == J("array", "", 0, NoF, e)
\* A value that exposes a parse function: a pre-built zod validator, by name.
JValidator(id) == J("validator", id, 0, NoF, <<>>)

\* JavaScript truthiness: `!schema`, `schema.properties`, `schema.items ? :`.
Truthy(v) ==
    CASE v.t \in {"undefined", "null"} -> FALSE
      [] v.t = "boolean" -> v.s = "true"
      [] v.t = "number" -> v.n # 0
      [] v.t = "string" -> v.s # ""
      [] OTHER -> TRUE

\* `key in v` for an object; the documents here carry no inherited keys.
HasKey(v, key) == v.t = "object" /\ key \in DOMAIN v.f

\* Property access `v.key`: undefined on a primitive or when the key is absent.
Get(v, key) == IF HasKey(v, key) THEN v.f[key] ELSE Undef

\* typeof v === "number"
IsNumber(v) == v.t = "number"

\* The decimal text of a small array index, as Object.entries names it.
IndexKeys == <<"0", "1", "2", "3">>

\* Object.entries(props): the own enumerable entries of any value.  A string
\* gives one entry per character (each a one-character string), an array one
\* per element, a number or a boolean none.
Entries(props) ==
    CASE props.t = "object" -> props.f
      [] props.t = "array" ->
            [k \in {IndexKeys[i] : i \in 1..Len(props.e)} |->
                props.e[CHOOSE i \in 1..Len(props.e) : IndexKeys[i] = k]]
      [] props.t = "string" ->
            [k \in {IndexKeys[i] : i \in 1..Len(props.s)} |-> JS("c")]
      [] OTHER -> NoF

\* `a ?? b`
Coalesce(a, b) == IF a.t \in {"undefined", "null"} THEN b ELSE a

\* A set as a sequence, in one fixed order (the order of the keys of a shape).
RECURSIVE SeqOfSet(_)
SeqOfSet(S) ==
    IF S = {} THEN <<>>
    ELSE LET x == CHOOSE y \in S : TRUE IN <<x>> \o SeqOfSet(S \ {x})

RECURSIVE Flatten(_)
Flatten(ss) == IF ss = <<>> THEN <<>> ELSE Head(ss) \o Flatten(Tail(ss))

-----------------------------------------------------------------------------
(* zod validators.  z is the type name (ZodAny, ZodString, ...); lit the    *)
(* value of a literal; min/max the bounds of a string, number or array     *)
(* check, scaled like n; int the integer check; rx the pattern of a regex  *)
(* check; shape and unk the shape and the unknown-key policy of an object; *)
(* sub the options of a union, the element type of an array, the inner     *)
(* type of an optional.                                                    *)

ZBase ==
    [z |-> "any", lit |-> <<>>, hasMin |-> FALSE, min |-> 0, hasMax |-> FALSE,
     max |-> 0, int |-> FALSE, rx |-> <<>>, shape |-> NoF, unk |-> "strip",
     sub |-> <<>>]

ZAny == ZBase
ZString == [ZBase EXCEPT !.z = "string"]
ZNumber == [ZBase EXCEPT !.z = "number"]
ZInt == [ZBase EXCEPT !.z = "number", !.int = TRUE]
ZBoolean == [ZBase EXCEPT !.z = "boolean"]
ZLiteral(v) == [ZBase EXCEPT !.z = "literal", !.lit = <<v>>]
ZUnion(options) == [ZBase EXCEPT !.z = "union", !.sub = options]
ZArray_AnyItems(item) == [ZBase EXCEPT !.z = "array", !.sub = <<ZAny>>]
ZArray(item) == [ZBase EXCEPT !.z = "array", !.sub = <<item>>]
ZObject(shape, unknownKeys) ==
    [ZBase EXCEPT !.z = "object", !.shape = shape, !.unk = unknownKeys]
ZOptional(inner) == [ZBase EXCEPT !.z = "optional", !.sub = <<inner>>]
ZRecordAny == [ZBase EXCEPT !.z = "record"]
ZMin(zv, m) == [zv EXCEPT !.hasMin = TRUE, !.min = m.n]
ZMax(zv, m) == [zv EXCEPT !.hasMax = TRUE, !.max = m.n]
ZRegex_Dropped(zv, p) == zv
ZRegex(zv, p) == [zv EXCEPT !.rx = <<p>>]

\* Not a validator: the RangeError ("Maximum call stack size exceeded") that
\* leaves a compilation which recursed without end.
ZRangeError == [ZBase EXCEPT !.z = "RangeError"]

\* The pre-built validators a provider may hand over in place of a document.
NativeIds == {"zobj", "zstr"}

NativeZod(id) ==
    IF id = "zobj" THEN ZObject([q |-> ZString], "strip") ELSE ZString

\* new RegExp(p): the patterns of the model that are not regular expressions.
BadPattern == "([a-"
AddrPattern == "^0x[0-9a-fA-F]{40}$"
UPattern == "^u"
\* new RegExp(p) when no pattern makes it throw.
RegexCompiles_Always(p) == TRUE

RegexCompiles(p) == p # BadPattern

\* rx.test(s), for the patterns and strings of the model.
AddrString == "0x000000000000000000000000000000000000dEaD"
RegexTest(p, s) ==
    CASE p = AddrPattern -> s = AddrString
      [] p = UPattern -> s \in {"u", "uv", "uvw"}
      [] OTHER -> FALSE

\* required.includes(k)
Includes(required, k) == \E i \in 1..Len(required) : required[i] = JS(k)

\* { type: "object", ...schema }: the keys of schema are written after type,
\* so a type the schema has itself (whatever its value) replaces "object".
SpreadOverObjectType(schema) ==
    IF HasKey(schema, "type") THEN schema
    ELSE JO([k \in DOMAIN schema.f \cup {"type"} |->
                IF k = "type" THEN JS("object") ELSE schema.f[k]])

RECURSIVE jsonSchemaPropToZod(_)
jsonSchemaPropToZod(schema) ==
    IF ~Truthy(schema) THEN ZAny
    ELSE IF Get(schema, "enum").t = "array" THEN
        LET enum == Get(schema, "enum").e
            literals == [i \in 1..Len(enum) |-> ZLiteral(enum[i])]
        IN  IF Len(enum) = 1 THEN literals[1]
            ELSE IF Len(enum) = 0 THEN ZUnion(<<>>) ELSE ZUnion(literals)
    ELSE IF Get(schema, "const") # Undef THEN ZLiteral(Get(schema, "const"))
    ELSE
    LET type == Get(schema, "type")
        minLength == Get(schema, "minLength")
        maxLength == Get(schema, "maxLength")
        pattern == Get(schema, "pattern")
        minimum == Get(schema, "minimum")
        maximum == Get(schema, "maximum")
        minItems == Get(schema, "minItems")
        maxItems == Get(schema, "maxItems")
        WithMin(zv, m) == IF IsNumber(m) THEN ZMin(zv, m) ELSE zv
        WithMax(zv, m) == IF IsNumber(m) THEN ZMax(zv, m) ELSE zv
    IN
    CASE type = JS("string") ->
            LET s == WithMax(WithMin(ZString, minLength), maxLength)
            IN  IF pattern.t = "string" /\ RegexCompiles(pattern.s)
                THEN ZRegex(s, pattern.s) ELSE s
      [] type = JS("number") -> WithMax(WithMin(ZNumber, minimum), maximum)
      [] type = JS("integer") -> WithMax(WithMin(ZInt, minimum), maximum)
      [] type = JS("boolean") -> ZBoolean
      [] type = JS("array") ->
            LET itemSchema == IF Truthy(Get(schema, "items"))
                              THEN jsonSchemaPropToZod(Get(schema, "items"))
                              ELSE ZAny
            IN  IF itemSchema.z = "RangeError" THEN ZRangeError
                ELSE WithMax(WithMin(ZArray(itemSchema), minItems), maxItems)
      [] type = JS("object") ->
            LET props == Entries(Coalesce(Get(schema, "properties"), JO(NoF)))
                required == IF Get(schema, "required").t = "array"
                            THEN Get(schema, "required").e ELSE <<>>
                child == [k \in DOMAIN props |-> jsonSchemaPropToZod(props[k])]
            IN  IF \E k \in DOMAIN props : child[k].z = "RangeError"
                THEN ZRangeError
                ELSE ZObject([k \in DOMAIN props |->
                                IF Includes(required, k) THEN child[k]
                                ELSE ZOptional(child[k])],
                             "passthrough")
      [] OTHER ->
            IF Truthy(Get(schema, "properties"))
            THEN \* the call is made on the spread; with the type unchanged
                 \* it reaches this branch again, without end
                 IF SpreadOverObjectType(schema) = schema THEN ZRangeError
                 ELSE jsonSchemaPropToZod(SpreadOverObjectType(schema))
            ELSE ZAny

\* Object.keys(v).length
KeyCount(v) ==
    CASE v.t = "object" -> Cardinality(DOMAIN v.f)
      [] v.t = "array" -> Len(v.e)
      [] v.t = "string" -> Len(v.s)
      [] OTHER -> 0

\* The property schemas the root maps to z.record(z.any()).
IsFreeFormObject(propSchema) ==
    /\ Truthy(propSchema)
    /\ propSchema.t = "object"
    /\ HasKey(propSchema, "type")
    /\ HasKey(propSchema, "additionalProperties")
    /\ HasKey(propSchema, "properties")
    /\ Get(propSchema, "type") = JS("object")
    /\ Get(propSchema, "additionalProperties") = JTrue
    /\ (~Truthy(Get(propSchema, "properties"))
            \/ KeyCount(Get(propSchema, "properties")) = 0)

jsonSchemaToZodRoot(schema) ==
    IF ~Truthy(schema) THEN ZObject(NoF, "strip")
    ELSE IF schema.t = "validator" THEN NativeZod(schema.s)
    ELSE IF Get(schema, "type") = JS("object") \/ Truthy(Get(schema, "properties"))
    THEN
        LET props == Entries(Coalesce(Get(schema, "properties"), JO(NoF)))
            required == IF Get(schema, "required").t = "array"
                        THEN Get(schema, "required").e ELSE <<>>
            propZod == [key \in DOMAIN props |->
                            IF IsFreeFormObject(props[key]) THEN ZRecordAny
                            ELSE jsonSchemaPropToZod(props[key])]
        IN  IF \E key \in DOMAIN props : propZod[key].z = "RangeError"
            THEN ZRangeError
            ELSE ZObject([key \in DOMAIN props |->
                            IF Includes(required, key) THEN propZod[key]
                            ELSE ZOptional(propZod[key])],
                         "strip")
    ELSE ZObject(NoF, "strip")

-----------------------------------------------------------------------------
(* schema.parse(value) of zod 3: the parsed value, or the issues of the    *)
(* ZodError it throws.  An issue is a path (keys, and indexes as text) and *)
(* zod's message for it.                                                   *)

Issue(path, message) == [path |-> path, message |-> message]
Valid(v) == [ok |-> TRUE, val |-> v, issues |-> <<>>]
Invalid(issues) == [ok |-> FALSE, val |-> Undef, issues |-> issues]

\* zod's message for a value of the wrong type (its name of the type found).
InvalidType(expected, val, path) ==
    Issue(path, IF val.t = "undefined" THEN "Required"
                ELSE "Expected " \o expected \o ", received " \o val.t)

\* `input.data !== this._def.value`: objects and arrays are compared by
\* identity, and a parsed argument is never the object of the schema.
StrictEqual(a, b) == a.t \notin {"object", "array"} /\ a = b

RECURSIVE ZParse(_, _, _)
ZParse(zv, val, path) ==
    CASE zv.z = "any" -> Valid(val)
      [] zv.z = "optional" ->
            IF val.t = "undefined" THEN Valid(Undef)
            ELSE ZParse(zv.sub[1], val, path)
      [] zv.z = "literal" ->
            IF StrictEqual(val, zv.lit[1]) THEN Valid(val)
            ELSE Invalid(<<Issue(path, "Invalid literal value")>>)
      [] zv.z = "union" ->
            IF \E i \in 1..Len(zv.sub) : ZParse(zv.sub[i], val, path).ok
            THEN ZParse(zv.sub[CHOOSE i \in 1..Len(zv.sub) :
                            /\ ZParse(zv.sub[i], val, path).ok
                            /\ \A j \in 1..(i - 1) : ~ZParse(zv.sub[j], val, path).ok],
                        val, path)
            ELSE Invalid(<<Issue(path, "Invalid input")>>)
      [] zv.z = "boolean" ->
            IF val.t = "boolean" THEN Valid(val)
            ELSE Invalid(<<InvalidType("boolean", val, path)>>)
      [] zv.z = "string" ->
            IF val.t # "string" THEN Invalid(<<InvalidType("string", val, path)>>)
            ELSE LET tooSmall == IF zv.hasMin /\ 2 * Len(val.s) < zv.min
                                 THEN <<Issue(path, "String too small")>> ELSE <<>>
                     tooBig == IF zv.hasMax /\ 2 * Len(val.s) > zv.max
                               THEN <<Issue(path, "String too big")>> ELSE <<>>
                     noMatch == IF zv.rx # <<>> /\ ~RegexTest(zv.rx[1], val.s)
                                THEN <<Issue(path, "Invalid")>> ELSE <<>>
                     issues == tooSmall \o tooBig \o noMatch
                 IN  IF issues = <<>> THEN Valid(val) ELSE Invalid(issues)
      [] zv.z = "number" ->
            IF val.t # "number" THEN Invalid(<<InvalidType("number", val, path)>>)
            ELSE LET notInt == IF zv.int /\ val.n % 2 # 0
                               THEN <<Issue(path, "Expected integer, received float")>>
                               ELSE <<>>
                     tooSmall == IF zv.hasMin /\ val.n < zv.min
                                 THEN <<Issue(path, "Number too small")>> ELSE <<>>
                     tooBig == IF zv.hasMax /\ val.n > zv.max
                               THEN <<Issue(path, "Number too big")>> ELSE <<>>
                     issues == notInt \o tooSmall \o tooBig
                 IN  IF issues = <<>> THEN Valid(val) ELSE Invalid(issues)
      [] zv.z = "array" ->
            IF val.t # "array" THEN Invalid(<<InvalidType("array", val, path)>>)
            ELSE LET tooSmall == IF zv.hasMin /\ 2 * Len(val.e) < zv.min
                                 THEN <<Issue(path, "Array too small")>> ELSE <<>>
                     tooBig == IF zv.hasMax /\ 2 * Len(val.e) > zv.max
                               THEN <<Issue(path, "Array too big")>> ELSE <<>>
                     item == [i \in 1..Len(val.e) |->
                                ZParse(zv.sub[1], val.e[i], path \o <<IndexKeys[i]>>)]
                     issues == tooSmall \o tooBig
                                \o Flatten([i \in 1..Len(val.e) |-> item[i].issues])
                 IN  IF issues = <<>>
                     THEN Valid(JA([i \in 1..Len(val.e) |-> item[i].val]))
                     ELSE Invalid(issues)
      [] zv.z = "record" ->
            IF val.t # "object" THEN Invalid(<<InvalidType("object", val, path)>>)
            ELSE Valid(val)
      [] zv.z = "object" ->
            IF val.t # "object" THEN Invalid(<<InvalidType("object", val, path)>>)
            ELSE LET shapeKeys == DOMAIN zv.shape
                     order == SeqOfSet(shapeKeys)
                     field == [k \in shapeKeys |->
                                ZParse(zv.shape[k], Get(val, k), path \o <<k>>)]
                     issues == Flatten([i \in 1..Len(order) |-> field[order[i]].issues])
                     \* a key of the shape is written when its value is defined
                     \* or the input had the key; passthrough adds the others
                     kept == {k \in shapeKeys :
                                field[k].val.t # "undefined" \/ k \in DOMAIN val.f}
                     extra == IF zv.unk = "passthrough"
                              THEN DOMAIN val.f \ shapeKeys ELSE {}
                 IN  IF issues = <<>>
                     THEN Valid(JO([k \in kept \cup extra |->
                                    IF k \in kept THEN field[k].val ELSE val.f[k]]))
                     ELSE Invalid(issues)

\* e.path.join(".")
RECURSIVE JoinPath(_)
JoinPath(path) ==
    IF Len(path) = 1 THEN path[1]
    ELSE path[1] \o "." \o JoinPath(Tail(path))

\* details.join("; ") over `${path}: ${e.message}`
RECURSIVE JoinDetails(_)
JoinDetails(details) ==
    IF details = <<>> THEN ""
    ELSE IF Len(details) = 1 THEN details[1].path \o ": " \o details[1].message
    ELSE details[1].path \o ": " \o details[1].message \o "; "
            \o JoinDetails(Tail(details))

\* What a call of parseToolInput ends with: a returned value, or a thrown
\* Error with its message (text) and the `path: message` entries it joins.
Returned(v) == [threw |-> FALSE, value |-> v, details |-> <<>>, text |-> ""]
Thrown(details, text) ==
    [threw |-> TRUE, value |-> Undef, details |-> details, text |-> text]

\* parseToolInput without the fallback to {}: the validator is given the
\* raw input, and a name without an entry is an error.
parseToolInput_NoFallback(map, toolName, input) ==
    IF toolName \notin DOMAIN map
    THEN Thrown(<<>>, "Unknown tool \"" \o toolName \o "\"")
    ELSE LET parsed == ZParse(map[toolName], input, <<>>)
         IN  IF parsed.ok THEN Returned(parsed.val)
             ELSE Thrown(<<>>, "Input validation failed for tool \"" \o toolName \o "\"")

\* parseToolInput when the error reports the first issue alone.
parseToolInput_FirstIssueOnly(map, toolName, input) ==
    IF toolName \notin DOMAIN map THEN Returned(JO(NoF))
    ELSE LET parsed == ZParse(map[toolName], Coalesce(input, JO(NoF)), <<>>)
             first == IF Len(parsed.issues[1].path) > 0
                      THEN JoinPath(parsed.issues[1].path) ELSE "<root>"
             details == <<[path |-> first, message |-> parsed.issues[1].message]>>
         IN  IF parsed.ok THEN Returned(parsed.val)
             ELSE Thrown(details,
                         "Input validation failed for tool \"" \o toolName
                            \o "\": " \o JoinDetails(details))

parseToolInput(map, toolName, input) ==
    IF toolName \notin DOMAIN map THEN Returned(JO(NoF))
    ELSE LET parsed == ZParse(map[toolName], Coalesce(input, JO(NoF)), <<>>)
             details == [i \in 1..Len(parsed.issues) |->
                            [path |-> IF Len(parsed.issues[i].path) > 0
                                      THEN JoinPath(parsed.issues[i].path)
                                      ELSE "<root>",
                             message |-> parsed.issues[i].message]]
         IN  IF parsed.ok THEN Returned(parsed.val)
             ELSE Thrown(details,
                         "Input validation failed for tool \"" \o toolName
                            \o "\": " \o JoinDetails(details))

\* The key t.name gives the Map: the name, or the text of what is there.
NameKey(t) == IF Get(t, "name").t = "string" THEN Get(t, "name").s ELSE Get(t, "name").t

NoMap == [k \in {} |-> ZAny]

\* One turn of the loop of buildToolZodMap on descriptor t: the map after
\* it.  Reading t.name of a null descriptor throws in the try block and
\* again in the catch block, which ends the whole build.
BuildOne_FirstWins(m, t) ==
    LET raw == Coalesce(Get(t, "inputSchema"), t)
        zodSchema == jsonSchemaToZodRoot(raw)
    IN  [k \in DOMAIN m \cup {NameKey(t)} |->
            IF k \in DOMAIN m THEN m[k]
            ELSE IF zodSchema.z = "RangeError" THEN ZObject(NoF, "strip")
            ELSE zodSchema]

BuildOne(m, t) ==
    LET raw == Coalesce(Get(t, "inputSchema"), t)
        zodSchema == jsonSchemaToZodRoot(raw)
        finalSchema == IF zodSchema.z = "RangeError"
                       THEN ZObject(NoF, "strip")          \* the catch block
                       ELSE IF zodSchema.z = "object" THEN zodSchema
                       ELSE ZObject(NoF, "strip")
    IN  [k \in DOMAIN m \cup {NameKey(t)} |->
            IF k = NameKey(t) THEN finalSchema ELSE m[k]]

RECURSIVE BuildFrom(_, _)
BuildFrom(m, listOfTools) ==
    IF listOfTools = <<>> THEN [threw |-> FALSE, map |-> m]
    ELSE IF Head(listOfTools).t \in {"null", "undefined"}
         THEN [threw |-> TRUE, map |-> m]
         ELSE BuildFrom(BuildOne(m, Head(listOfTools)), Tail(listOfTools))

buildToolZodMap(listOfTools) == BuildFrom(NoMap, listOfTools)

-----------------------------------------------------------------------------
(* The schema documents and the arguments the bridge is run on.            *)

MaxDepth == 2

\* A document with the given type, properties, required and
\* additionalProperties; Undef leaves the key out.
MkDoc(type, properties, required, additional) ==
    LET all == [type |-> type, properties |-> properties, required |-> required,
                additionalProperties |-> additional]
    IN  JO([k \in {key \in DOMAIN all : all[key] # Undef} |-> all[k]])

\* An object over the keys a, b, x; Undef leaves the key out.
MkObj(a, b, x) ==
    LET all == [a |-> a, b |-> b, x |-> x]
    IN  JO([k \in {key \in DOMAIN all : all[key] # Undef} |-> all[k]])

StringDoc == JO([type |-> JS("string")])

LeafDocs ==
    { JNull, JS("string"), JN(7), JO(NoF), StringDoc,
      JO([type |-> JS("string"), minLength |-> JN(1), maxLength |-> JN(2)]),
      JO([type |-> JS("string"), pattern |-> JS(UPattern)]),
      JO([type |-> JS("string"), pattern |-> JS(UPattern),
          minLength |-> JN(1), maxLength |-> JN(2)]),
      JO([type |-> JS("string"), pattern |-> JS(AddrPattern)]),
      JO([type |-> JS("string"), pattern |-> JS(BadPattern)]),
      JO([type |-> JS("string"), pattern |-> JS(BadPattern),
          minLength |-> JN(1), maxLength |-> JN(2)]),
      JO([type |-> JS("number")]),
      JO([type |-> JS("integer"), minimum |-> JN(1)]),
      JO([type |-> JS("boolean")]),
      JO([type |-> JS("mystery")]),
      JO([type |-> JN(5)]),
      JO([enum |-> JA(<<>>)]),
      JO([enum |-> JA(<<JS("u")>>)]),
      JO([enum |-> JA(<<JS("u"), JN(1)>>), type |-> JS("string")]),
      JO([const |-> JS("u")]),
      JO([const |-> JNull]),
      JO([const |-> JA(<<JS("u")>>)]),
      JO([enum |-> JA(<<JA(<<JS("u")>>), JN(1)>>)]),
      JO([type |-> JS("array")]),
      JO([type |-> JS("array"), items |-> StringDoc, maxItems |-> JN(1)]),
      JO([type |-> JS("array"), minItems |-> JN(1),
          items |-> JO([type |-> JS("object"), properties |-> JO([a |-> StringDoc])])]),
      JO([type |-> JS("object")]),
      JO([type |-> JS("object"), additionalProperties |-> JTrue,
          properties |-> JO(NoF)]) }

TypeOpts == {Undef, JS("object"), JS("mystery")}

NestLeaves ==
    { JNull, JO(NoF), StringDoc, JO([type |-> JS("mystery")]),
      JO([enum |-> JA(<<JS("u")>>)]) }

\* Objects nested d deep, of a declared, an absent and an unknown type.
RECURSIVE NestedDocs(_)
NestedDocs(d) ==
    IF d = 0 THEN {}
    ELSE { MkDoc(type, JO([a |-> s]), required, Undef) :
            type \in TypeOpts,
            s \in NestLeaves \cup NestedDocs(d - 1),
            required \in {Undef, JA(<<JS("a")>>)} }

DegenerateRoots ==
    { Undef, JNull, JS("string"), JN(7), JO(NoF), StringDoc,
      JO([enum |-> JA(<<JS("u")>>)]), JO([const |-> JS("u")]),
      JO([type |-> JS("array"), items |-> StringDoc]),
      JO([type |-> JS("mystery")]), JO([type |-> JS("object")]),
      JO([properties |-> JS("ab")]), JO([type |-> JS("object"), properties |-> JN(7)]) }
        \cup {JValidator(id) : id \in NativeIds}

ObjectRoots ==
    { MkDoc(type, MkObj(pa, pb, Undef), required, additional) :
        type \in TypeOpts,
        pa \in {Undef} \cup LeafDocs \cup NestedDocs(MaxDepth - 1),
        pb \in {Undef, StringDoc},
        required \in {Undef, JA(<<JS("a")>>), JA(<<JS("b")>>), JA(<<JS("a"), JS("b")>>)},
        additional \in {Undef} }

RootDocs == DegenerateRoots \cup ObjectRoots

RECURSIVE InObjs(_)
InObjs(d) ==
    IF d = 0 THEN {}
    ELSE { MkObj(a, Undef, x) :
            a \in {Undef, JS("u"), JN(1)} \cup InObjs(d - 1),
            x \in {Undef, JS("extra")} }

InScalars ==
    { JS(""), JS("u"), JS("w"), JS("uvw"), JS("0xabc"), JS(AddrString), JN(1), JHalf(1), JTrue, JNull,
      JA(<<>>), JA(<<JS("u")>>), JA(<<JS("u"), JN(1)>>),
      JA(<<JO([a |-> JS("u"), x |-> JS("extra")])>>) }

Inputs ==
    { Undef, JNull, JS("u") }
        \cup { MkObj(a, b, x) :
                a \in {Undef} \cup InScalars \cup InObjs(MaxDepth - 1),
                b \in {Undef, JS("u"), JN(1)},
                x \in {Undef, JS("extra")} }

\* The name under which the document's tool is listed.
ToolName == "tool"

Descriptor(schema) ==
    JO([name |-> JS(ToolName), description |-> JS(""), inputSchema |-> schema])

-----------------------------------------------------------------------------
(* SpecSchema: the bridge applied to one document and one argument value:  *)
(* the root compiler on its own, then the registry build and the resolve   *)
(* of a call.                                                              *)

NoResult == Returned(Undef)

\* The schema bridge at rest, while another part of the program is checked.
SchemaIdle ==
    /\ doc = Undef
    /\ spc = "start"
    /\ compiled = ZAny
    /\ rawInput = Undef
    /\ resolved = NoResult

NoTools == [k \in {} |-> "none"]
NoCalls == [c \in {} |-> 0]

\* The process before start(): the value of USE_STREAMABLE_HTTP, no
\* transport, no exit code.
NoProcess == [env |-> "", transport |-> "none", exit |-> -1]

\* The server at rest.
ServerIdle ==
    /\ phase = "off"
    /\ goatList = <<>>
    /\ registeredTools = NoTools
    /\ calls = NoCalls
    /\ invocations = <<>>
    /\ compileCount = NoCalls
    /\ catalog = NoCalls
    /\ proc = NoProcess

\* No POST request is being served.
HttpIdle ==
    /\ sdk = "none"
    /\ slot = 0
    /\ reqs = NoCalls

\* No network-backed tool is running.
NetIdle == net = NoCalls

\* No registry is being built from a list.
IdleReg ==
    [pos |-> "off", list |-> <<>>, threw |-> FALSE, name |-> "", input |-> Undef,
     result |-> NoResult]

RegIdle == regBuild = IdleReg

InitSchema ==
    /\ doc \in RootDocs
    /\ spc = "start"
    /\ compiled = ZAny
    /\ toolSchemaMap = NoMap
    /\ rawInput = Undef
    /\ resolved = NoResult
    /\ ServerIdle
    /\ HttpIdle
    /\ NetIdle
    /\ RegIdle

Compile ==
    /\ spc = "start"
    /\ phase = "off"
    /\ compiled' = jsonSchemaToZodRoot(doc)
    /\ spc' = IF compiled'.z = "RangeError" THEN "threw" ELSE "compiled"
    /\ UNCHANGED <<doc, toolSchemaMap, rawInput, resolved>>
    /\ UNCHANGED <<serverVars, httpVars, netVars, regVars>>

BuildRegistry ==
    /\ spc \in {"compiled", "threw"}
    /\ toolSchemaMap' = buildToolZodMap(<<Descriptor(doc)>>).map
    /\ spc' = "built"
    /\ UNCHANGED <<doc, compiled, rawInput, resolved>>
    /\ UNCHANGED <<serverVars, httpVars, netVars, regVars>>

Resolve ==
    /\ spc = "built"
    /\ \E input \in Inputs :
        /\ rawInput' = input
        /\ resolved' = parseToolInput(toolSchemaMap, ToolName, input)
    /\ spc' = "resolved"
    /\ UNCHANGED <<doc, compiled, toolSchemaMap>>
    /\ UNCHANGED <<serverVars, httpVars, netVars, regVars>>

NextSchema == Compile \/ BuildRegistry \/ Resolve

SpecSchema == InitSchema /\ [][NextSchema]_vars

-----------------------------------------------------------------------------
(* Claims about the schema bridge.                                         *)

\* The document is one the root compiles as an object of named fields.
IsObjectDoc(d) ==
    /\ Truthy(d)
    /\ d.t = "object"
    /\ (Get(d, "type") = JS("object") \/ Truthy(Get(d, "properties")))

\* The names of the document's required set.
RequiredNames(d) ==
    IF Get(d, "required").t = "array"
    THEN {Get(d, "required").e[i].s : i \in 1..Len(Get(d, "required").e)}
    ELSE {}

\* The names the document declares a field for.
DeclaredNames(d) == DOMAIN Entries(Coalesce(Get(d, "properties"), JO(NoF)))

\* C1: for every compiled object schema and every input object that is valid
\* against it, resolve returns the declared fields unchanged and keeps every
\* unlisted field, at the root as in nested objects: the result is the input.
C1_ResolveKeepsEveryField ==
    (/\ spc = "resolved"
     /\ IsObjectDoc(doc)
     /\ compiled.z = "object"
     /\ rawInput.t = "object"
     /\ ~resolved.threw)
        => resolved.value = rawInput

\* C2: a field is mandatory iff its name is in the required set: resolve on
\* an object input that lacks a required name throws an error with an entry
\* for that name, whatever the field's sub-schema and also when the name has
\* no entry in properties; an input with no declared field at all is
\* accepted when nothing is required.
C2_RequiredIffInRequiredSet ==
    (/\ spc = "resolved"
     /\ IsObjectDoc(doc)
     /\ compiled.z = "object"
     /\ rawInput.t = "object")
        => /\ \A name \in RequiredNames(doc) :
                name \notin DOMAIN rawInput.f
                    => /\ resolved.threw
                       /\ \E i \in 1..Len(resolved.details) :
                            resolved.details[i].path = name
           /\ (RequiredNames(doc) = {} /\ DOMAIN rawInput.f \cap DeclaredNames(doc) = {})
                    => ~resolved.threw

\* C10: compiling a schema document, degenerate ones included, never raises.
C10_CompileNeverRaises == spc # "threw"

-----------------------------------------------------------------------------
(* JSON.stringify(value, null, 2): the text of a value, two spaces a       *)
(* level; undefined for undefined; a TypeError on a BigInt anywhere in it. *)
(* Strings are written between quotes (the texts used hold no character    *)
(* that needs an escape).                                                  *)

JBig(k) == J("bigint", "", 2 * k, NoF, <<>>)

RECURSIVE HasBigInt(_)
HasBigInt(v) ==
    \/ v.t = "bigint"
    \/ \E k \in DOMAIN v.f : HasBigInt(v.f[k])
    \/ \E i \in 1..Len(v.e) : HasBigInt(v.e[i])

RECURSIVE Pad(_)
Pad(n) == IF n = 0 THEN "" ELSE " " \o Pad(n - 1)

NumberText(v) ==
    IF v.n % 2 = 0 THEN ToString(v.n \div 2) ELSE ToString(v.n \div 2) \o ".5"

RECURSIVE JoinLines(_)
JoinLines(lines) ==
    IF Len(lines) = 1 THEN lines[1]
    ELSE lines[1] \o ",\n" \o JoinLines(Tail(lines))

RECURSIVE StringifyAt(_, _)
StringifyAt(v, ind) ==
    CASE v.t = "string" -> "\"" \o v.s \o "\""
      [] v.t = "number" -> NumberText(v)
      [] v.t = "boolean" -> v.s
      [] v.t = "array" ->
            IF v.e = <<>> THEN "[]"
            ELSE "[\n"
                 \o JoinLines([i \in 1..Len(v.e) |->
                        Pad(ind + 2)
                        \o StringifyAt(IF v.e[i].t = "undefined" THEN JNull ELSE v.e[i],
                                       ind + 2)])
                 \o "\n" \o Pad(ind) \o "]"
      [] v.t = "object" ->
            LET keys == SeqOfSet({k \in DOMAIN v.f : v.f[k].t # "undefined"})
            IN  IF keys = <<>> THEN "{}"
                ELSE "{\n"
                     \o JoinLines([i \in 1..Len(keys) |->
                            Pad(ind + 2) \o "\"" \o keys[i] \o "\": "
                            \o StringifyAt(v.f[keys[i]], ind + 2)])
                     \o "\n" \o Pad(ind) \o "}"
      [] OTHER -> "null"

JSON_stringify(v) ==
    [threw |-> HasBigInt(v),
     text |-> IF HasBigInt(v) \/ v.t = "undefined" THEN Undef
              ELSE JS(StringifyAt(v, 0))]

-----------------------------------------------------------------------------
(* The tools of the two providers.                                         *)

\* vechainTools: the names of the native tools, in the order of the array.
vechainTools ==
    << "search_documentation", "get_account", "get_transaction", "get_block",
       "get_priority_fee", "create_wallet", "sign_certificate",
       "sign_raw_transaction" >>

\* The `error` a native callback's catch block writes when the failure is
\* not an abort.
ErrorLabel(name) ==
    CASE name = "search_documentation" -> "Failed to fetch account"
      [] name = "get_account" -> "Failed to fetch account"
      [] name = "get_transaction" -> "Failed to fetch transaction"
      [] name = "get_block" -> "Failed to fetch VeChain block"
      [] name = "get_priority_fee" -> "Failed to fetch priority fee"
      [] name = "create_wallet" -> "Failed to create wallet"
      [] OTHER -> ""

\* The payload a catch block returns: its fields error and reason (the url,
\* address and revision some tools add are left out).
ErrorPayload(isAbort, label, reason) ==
    JO([error |-> JS(IF isAbort THEN "Request timed out" ELSE label),
        reason |-> JS(reason)])

\* { content: [{ type: "text", text }] }
Content(text) == << [type |-> "text", text |-> text] >>

\* A raw transaction Hex.of and Transaction.decode accept, and one Hex.of
\* rejects.
HexTx == "0xf8"
NotHex == "zz"

\* The descriptors listOfTools() may give: none, one tool, two tools, a tool
\* listed twice, and a tool named like a native one.
TransferTool ==
    JO([name |-> JS("transfer"), description |-> JS("Send VET"),
        inputSchema |-> MkDoc(JS("object"), JO([to |-> StringDoc]),
                              JA(<<JS("to")>>), Undef)])

BalanceTool == JO([name |-> JS("get_balance"), description |-> JS("")])

TransferAgain ==
    JO([name |-> JS("transfer"), description |-> JS("Send VET again"),
        inputSchema |-> MkDoc(JS("object"), JO(NoF), Undef, Undef)])

GoatGetAccount ==
    JO([name |-> JS("get_account"), description |-> JS("Goat account"),
        inputSchema |-> MkDoc(JS("object"), JO(NoF), Undef, Undef)])

GoatLists ==
    { <<>>, <<TransferTool>>, <<TransferTool, BalanceTool>>,
      <<TransferTool, TransferAgain>>, <<TransferTool, GoatGetAccount>> }

\* The arguments the callback of a Goat tool is entered with.
GoatArgs ==
    { Undef, JO(NoF),
      JO([to |-> JS("0xabc")]), JO([to |-> JN(1)]),
      JO([to |-> JS("0xabc"), foo |-> JS("bar")]) }

\* Arguments the input schema of a native tool accepts.
ValidArgs(name) ==
    CASE name = "search_documentation" -> JO([query |-> JS("fees")])
      [] name = "get_account" -> JO([address |-> JS(AddrString)])
      [] name = "get_transaction" -> JO([id |-> JS("0x01")])
      [] name = "get_block" -> JO([revision |-> JS("best")])
      [] name = "sign_certificate" -> JO([domain |-> JS("x"), payload |-> JS("p")])
      [] name = "sign_raw_transaction" -> JO([rawTransaction |-> JS(HexTx)])
      [] OTHER -> JO(NoF)

\* The arguments the callback of a native tool is entered with.
NativeArgs(name) ==
    {Undef, ValidArgs(name)}
        \cup IF name = "sign_raw_transaction"
             THEN {JO([rawTransaction |-> JS(NotHex)])} ELSE {}

\* What toolHandler may resolve with.
GoatResults == { JS("0xabc"), JO([hash |-> JS("0xabc")]), Undef, JBig(1) }

MaxCalls == 2

\* The tool names the two providers bring, in the order createVechainServer
\* registers them, each with its provider.
RegistrationOrder(list) ==
    [i \in 1..Len(list) |-> [name |-> NameKey(list[i]), provider |-> "goat"]]
        \o [i \in 1..Len(vechainTools) |->
                [name |-> vechainTools[i], provider |-> "native"]]

\* server.registerTool for each item in turn: the tools registered, and
\* whether a call threw `Tool <name> is already registered`, which ends the
\* loop and createVechainServer with it.
RECURSIVE RegisterFrom(_, _)
RegisterFrom(reg, items) ==
    IF items = <<>> THEN [threw |-> FALSE, tools |-> reg]
    ELSE IF Head(items).name \in DOMAIN reg THEN [threw |-> TRUE, tools |-> reg]
    ELSE RegisterFrom([k \in DOMAIN reg \cup {Head(items).name} |->
                            IF k = Head(items).name THEN Head(items).provider
                            ELSE reg[k]],
                      Tail(items))

\* buildToolZodMap calls jsonSchemaToZodRoot once per descriptor of the
\* list: the number of compilations made for each name.
CompilesOf(list) ==
    [name \in {NameKey(list[i]) : i \in 1..Len(list)} |->
        Cardinality({i \in 1..Len(list) : NameKey(list[i]) = name})]

\* The inputSchema createVechainServer registers for a Goat tool: the shape
\* of the validator the registry holds for the name (an empty shape when it
\* is not an object validator).  No schema document is registered.
inputShape(map, name) ==
    LET zodSchema == IF name \in DOMAIN map THEN map[name] ELSE ZObject(NoF, "strip")
    IN  [kind |-> "shape",
         shape |-> IF zodSchema.z = "object" THEN zodSchema.shape ELSE NoF,
         document |-> Undef]

\* A call that has not been made.
IdleCall ==
    [pos |-> "idle", name |-> "", args |-> Undef, provider |-> "none",
     outcome |-> "none", content |-> <<>>, message |-> ""]

\* The callback's promise fulfilled with { content }.
Fulfil(call, content) ==
    [call EXCEPT !.pos = "done", !.outcome = "returned", !.content = content]

\* The callback's promise rejected with an Error of the given message.
Reject(call, message) ==
    [call EXCEPT !.pos = "done", !.outcome = "threw", !.message = message]

\* The values the callback of create_wallet writes with JSON.stringify: the
\* result object (the mnemonic's words, the bytes of the private key, its
\* hex form, the address), or the payload of its catch block.
WalletResult ==
    JO([mnemonic |-> JA(<<JS("abandon"), JS("ability")>>),
        secretKey |-> JO([k \in {"0"} |-> JN(7)]),
        secretKeyHex |-> JS("0x07"),
        publicKey |-> JS(AddrString)])

create_wallet_Payloads ==
    { WalletResult,
      ErrorPayload(FALSE, ErrorLabel("create_wallet"), "No secure random source") }

\* What a native callback ends with on the given arguments: the texts it
\* may return, and the messages it may throw.
NativeReturns(name, args) ==
    IF args.t \in {"undefined", "null"} /\ name # "get_priority_fee" THEN {}
    ELSE IF name = "get_account" /\ Get(args, "address").t # "string" THEN {}
    ELSE IF name = "sign_raw_transaction"
         THEN IF Get(args, "rawTransaction") = JS(HexTx)
              THEN {JSON_stringify(JS("0xf8signed")).text} ELSE {}
    ELSE IF name = "sign_certificate"
         THEN {JSON_stringify(JO([purpose |-> JS("identification"),
                                  signature |-> JS("0xsig")])).text}
    ELSE IF name = "create_wallet"
         THEN {JSON_stringify(payload).text : payload \in create_wallet_Payloads}
    ELSE { JSON_stringify(JO([id |-> JS("0x01")])).text,
           JSON_stringify(ErrorPayload(FALSE, ErrorLabel(name), "fetch failed")).text,
           JSON_stringify(ErrorPayload(TRUE, ErrorLabel(name),
                                       "This operation was aborted")).text }

NativeThrows(name, args) ==
    IF args.t \in {"undefined", "null"} /\ name # "get_priority_fee"
    THEN {"Cannot destructure property of undefined"}
    ELSE IF name = "get_account" /\ Get(args, "address").t # "string"
    THEN {"Cannot read properties of undefined (reading 'startsWith')"}
    ELSE IF name = "sign_raw_transaction"
         THEN {"Missing AGENT_SECRET_KEY variable to use this tool.",
               "Invalid hexadecimal expression"}
    ELSE IF name = "sign_certificate"
         THEN {"Missing AGENT_SECRET_KEY variable to use this tool."}
    ELSE {}

-----------------------------------------------------------------------------
(* Spec: createVechainServer, start, and the callbacks the server calls    *)
(* for the tool calls it receives.  A callback is entered on a registered  *)
(* name with the arguments of the call.                                    *)

\* What process.env.USE_STREAMABLE_HTTP may hold ("" when it is not set).
EnvValues == {"true", "TRUE", ""}

Init ==
    /\ phase = "init"
    /\ goatList = <<>>
    /\ toolSchemaMap = NoMap
    /\ registeredTools = NoTools
    /\ calls = [c \in 1..MaxCalls |-> IdleCall]
    /\ invocations = <<>>
    /\ compileCount = NoCalls
    /\ catalog = NoCalls
    /\ proc \in {[NoProcess EXCEPT !.env = e] : e \in EnvValues}
    /\ SchemaIdle
    /\ HttpIdle
    /\ NetIdle
    /\ RegIdle

\* start() rejects: the catch of the entry point calls process.exit(1).
Exit(p) == [p EXCEPT !.exit = 1]

\* await toolsPromise(); listOfTools(): the descriptors, or the rejection
\* toolsPromise rethrows.
ListTools ==
    /\ phase = "init"
    /\ \/ \E list \in GoatLists :
            goatList' = list /\ phase' = "listed" /\ proc' = proc
       \/ goatList' = goatList /\ phase' = "failed" /\ proc' = Exit(proc)
    /\ UNCHANGED <<toolSchemaMap, registeredTools, calls, invocations>>
    /\ UNCHANGED <<compileCount, catalog, schemaVars, httpVars, netVars, regVars>>

\* The rest of createVechainServer: the registry, then one registerTool per
\* Goat tool and per native tool.
CreateServer ==
    /\ phase = "listed"
    /\ LET built == buildToolZodMap(goatList)
           done == RegisterFrom(NoTools, RegistrationOrder(goatList))
       IN  /\ toolSchemaMap' = built.map
           /\ registeredTools' = IF built.threw THEN NoTools ELSE done.tools
           /\ phase' = IF built.threw \/ done.threw THEN "failed" ELSE "created"
           /\ proc' = IF built.threw \/ done.threw THEN Exit(proc) ELSE proc
           /\ compileCount' = CompilesOf(goatList)
           /\ catalog' = [name \in {n \in DOMAIN registeredTools' :
                                        registeredTools'[n] = "goat"} |->
                                inputShape(built.map, name)]
    /\ UNCHANGED <<goatList, calls, invocations>>
    /\ UNCHANGED <<schemaVars, httpVars, netVars, regVars>>

\* start when it connects the stdio transport whatever the environment.
Serve_Stdio ==
    /\ phase = "created"
    /\ phase' = "serving"
    /\ proc' = [proc EXCEPT !.transport = "stdio"]
    /\ UNCHANGED <<goatList, toolSchemaMap, registeredTools, calls, invocations>>
    /\ UNCHANGED <<compileCount, catalog, schemaVars, httpVars, netVars, regVars>>

\* start, after createVechainServer: the server is connected to the stdio
\* transport, or the HTTP routes are set up and the application listens.
Serve ==
    /\ phase = "created"
    /\ phase' = "serving"
    /\ proc' = [proc EXCEPT !.transport = IF proc.env = "true" THEN "http" ELSE "stdio"]
    /\ UNCHANGED <<goatList, toolSchemaMap, registeredTools, calls, invocations>>
    /\ UNCHANGED <<compileCount, catalog, schemaVars, httpVars, netVars, regVars>>

\* The callback of a Goat tool up to its await: parseToolInput, then
\* toolHandler(t.name, parsedArgs).
GoatCallback_HandlerFirst(c) ==
    /\ phase = "serving"
    /\ calls[c].pos = "idle"
    /\ \E name \in {n \in DOMAIN registeredTools : registeredTools[n] = "goat"},
          args \in GoatArgs :
        LET parsed == parseToolInput(toolSchemaMap, name, args)
            call == [IdleCall EXCEPT !.name = name, !.args = args, !.provider = "goat"]
        IN  /\ invocations' = Append(invocations,
                    [call |-> c, provider |-> "goat", name |-> name,
                     args |-> IF parsed.threw THEN args ELSE parsed.value])
            /\ calls' = [calls EXCEPT ![c] =
                    IF parsed.threw THEN Reject(call, parsed.text)
                    ELSE [call EXCEPT !.pos = "awaiting"]]
    /\ UNCHANGED <<phase, goatList, toolSchemaMap, registeredTools>>
    /\ UNCHANGED <<proc, compileCount, catalog, schemaVars, httpVars, netVars, regVars>>

\* The callback of a Goat tool when it compiles the tool's schema again
\* before it resolves the arguments.
GoatCallback_Recompiles(c) ==
    /\ phase = "serving"
    /\ calls[c].pos = "idle"
    /\ \E name \in {n \in DOMAIN registeredTools : registeredTools[n] = "goat"},
          args \in GoatArgs :
        LET parsed == parseToolInput(toolSchemaMap, name, args)
            call == [IdleCall EXCEPT !.name = name, !.args = args, !.provider = "goat"]
        IN  /\ compileCount' = [compileCount EXCEPT ![name] = @ + 1]
            /\ IF parsed.threw
               THEN /\ calls' = [calls EXCEPT ![c] = Reject(call, parsed.text)]
                    /\ invocations' = invocations
               ELSE /\ calls' = [calls EXCEPT ![c] = [call EXCEPT !.pos = "awaiting"]]
                    /\ invocations' = Append(invocations,
                            [call |-> c, provider |-> "goat", name |-> name,
                             args |-> parsed.value])
    /\ UNCHANGED <<phase, goatList, toolSchemaMap, registeredTools>>
    /\ UNCHANGED <<proc, catalog, schemaVars, httpVars, netVars, regVars>>

GoatCallback(c) ==
    /\ phase = "serving"
    /\ calls[c].pos = "idle"
    /\ \E name \in {n \in DOMAIN registeredTools : registeredTools[n] = "goat"},
          args \in GoatArgs :
        LET parsed == parseToolInput(toolSchemaMap, name, args)
            call == [IdleCall EXCEPT !.name = name, !.args = args, !.provider = "goat"]
        IN  IF parsed.threw
            THEN /\ calls' = [calls EXCEPT ![c] = Reject(call, parsed.text)]
                 /\ invocations' = invocations
            ELSE /\ calls' = [calls EXCEPT ![c] = [call EXCEPT !.pos = "awaiting"]]
                 /\ invocations' = Append(invocations,
                        [call |-> c, provider |-> "goat", name |-> name,
                         args |-> parsed.value])
    /\ UNCHANGED <<phase, goatList, toolSchemaMap, registeredTools>>
    /\ UNCHANGED <<proc, compileCount, catalog, schemaVars, httpVars, netVars, regVars>>

\* toolHandler settles and the Goat callback goes on: the result is
\* written with JSON.stringify into one text item.
\* toolHandler settles when the callback, as it goes on, puts the empty
\* object validator in the registry entry of the tool.
GoatHandlerSettles_ReplacesEntry(c) ==
    /\ calls[c].pos = "awaiting"
    /\ calls[c].provider = "goat"
    /\ \/ \E result \in GoatResults :
            LET str == JSON_stringify(result)
            IN  calls' = [calls EXCEPT ![c] =
                    IF str.threw
                    THEN Reject(@, "Do not know how to serialize a BigInt")
                    ELSE Fulfil(@, Content(str.text))]
       \/ calls' = [calls EXCEPT ![c] = Reject(@, "execution reverted")]
    /\ toolSchemaMap' = [toolSchemaMap EXCEPT ![calls[c].name] = ZObject(NoF, "strip")]
    /\ UNCHANGED <<phase, goatList, registeredTools, invocations>>
    /\ UNCHANGED <<proc, compileCount, catalog, schemaVars, httpVars, netVars, regVars>>

GoatHandlerSettles(c) ==
    /\ calls[c].pos = "awaiting"
    /\ calls[c].provider = "goat"
    /\ \/ \E result \in GoatResults :
            LET str == JSON_stringify(result)
            IN  calls' = [calls EXCEPT ![c] =
                    IF str.threw
                    THEN Reject(@, "Do not know how to serialize a BigInt")
                    ELSE Fulfil(@, Content(str.text))]
       \/ calls' = [calls EXCEPT ![c] = Reject(@, "execution reverted")]
    /\ UNCHANGED <<phase, goatList, toolSchemaMap, registeredTools, invocations>>
    /\ UNCHANGED <<proc, compileCount, catalog, schemaVars, httpVars, netVars, regVars>>

\* The callback of a native tool up to its await: t.callback(args).
NativeCallback_FirstTool(c) ==
    /\ phase = "serving"
    /\ calls[c].pos = "idle"
    /\ \E name \in {n \in DOMAIN registeredTools : registeredTools[n] = "native"} :
       \E args \in NativeArgs(name) :
        /\ calls' = [calls EXCEPT ![c] =
                [IdleCall EXCEPT !.name = name, !.args = args,
                                 !.provider = "native", !.pos = "awaiting"]]
        /\ invocations' = Append(invocations,
                [call |-> c, provider |-> "native", name |-> vechainTools[1],
                 args |-> args])
    /\ UNCHANGED <<phase, goatList, toolSchemaMap, registeredTools>>
    /\ UNCHANGED <<proc, compileCount, catalog, schemaVars, httpVars, netVars, regVars>>

NativeCallback(c) ==
    /\ phase = "serving"
    /\ calls[c].pos = "idle"
    /\ \E name \in {n \in DOMAIN registeredTools : registeredTools[n] = "native"} :
       \E args \in NativeArgs(name) :
        /\ calls' = [calls EXCEPT ![c] =
                [IdleCall EXCEPT !.name = name, !.args = args,
                                 !.provider = "native", !.pos = "awaiting"]]
        /\ invocations' = Append(invocations,
                [call |-> c, provider |-> "native", name |-> name, args |-> args])
    /\ UNCHANGED <<phase, goatList, toolSchemaMap, registeredTools>>
    /\ UNCHANGED <<proc, compileCount, catalog, schemaVars, httpVars, netVars, regVars>>

\* t.callback settles and the native callback goes on: every item of the
\* result's content is copied with type "text".
NativeHandlerSettles(c) ==
    /\ calls[c].pos = "awaiting"
    /\ calls[c].provider = "native"
    /\ \/ \E text \in NativeReturns(calls[c].name, calls[c].args) :
            LET result == Content(text)
            IN  calls' = [calls EXCEPT ![c] =
                    Fulfil(@, [i \in 1..Len(result) |->
                                [result[i] EXCEPT !.type = "text"]])]
       \/ \E message \in NativeThrows(calls[c].name, calls[c].args) :
            calls' = [calls EXCEPT ![c] = Reject(@, message)]
    /\ UNCHANGED <<phase, goatList, toolSchemaMap, registeredTools, invocations>>
    /\ UNCHANGED <<proc, compileCount, catalog, schemaVars, httpVars, netVars, regVars>>

Next ==
    \/ ListTools
    \/ CreateServer
    \/ Serve
    \/ \E c \in 1..MaxCalls : GoatCallback(c)
    \/ \E c \in 1..MaxCalls : GoatHandlerSettles(c)
    \/ \E c \in 1..MaxCalls : NativeCallback(c)
    \/ \E c \in 1..MaxCalls : NativeHandlerSettles(c)

Spec == Init /\ [][Next]_vars

-----------------------------------------------------------------------------
(* Claims about the dispatcher.                                            *)

\* The invocations of provider handlers made for call c.
InvocationsOf(c) == {i \in 1..Len(invocations) : invocations[i].call = c}

\* C3: no exception leaves a dispatcher callback: no call ends with the
\* callback's promise rejected.
C3_NoExceptionLeavesCallback ==
    \A c \in DOMAIN calls : calls[c].outcome # "threw"

\* C4: validation comes strictly before the handler: toolHandler is invoked
\* for a Goat call only when parseToolInput returned for the call's
\* arguments, and only with the value it returned; a call parseToolInput
\* rejects has no invocation.
C4_ValidationBeforeHandler ==
    \A c \in DOMAIN calls :
        calls[c].provider = "goat" =>
            LET parsed == parseToolInput(toolSchemaMap, calls[c].name, calls[c].args)
            IN  /\ parsed.threw => InvocationsOf(c) = {}
                /\ \A i \in InvocationsOf(c) :
                        /\ ~parsed.threw
                        /\ invocations[i].provider = "goat"
                        /\ invocations[i].args = parsed.value

\* A Goat call parseToolInput rejected has ended, and another reached
\* toolHandler.
C4_Witness ==
    /\ \E c \in DOMAIN calls :
        /\ calls[c].provider = "goat"
        /\ calls[c].outcome = "threw"
        /\ parseToolInput(toolSchemaMap, calls[c].name, calls[c].args).threw
    /\ \E c \in DOMAIN calls :
        /\ calls[c].provider = "goat"
        /\ InvocationsOf(c) # {}

\* C5: a call of tool N that returns has invoked exactly one handler exactly
\* once: the one of the provider N is registered for, under the name N, with
\* the validated arguments (what parseToolInput returned for a Goat tool,
\* the arguments the callback received for a native one).
C5_ExactlyOneHandlerOnce ==
    \A c \in DOMAIN calls :
        calls[c].outcome = "returned" =>
            /\ Cardinality(InvocationsOf(c)) = 1
            /\ \A i \in InvocationsOf(c) :
                /\ invocations[i].name = calls[c].name
                /\ invocations[i].provider = registeredTools[calls[c].name]
                /\ invocations[i].args =
                        IF registeredTools[calls[c].name] = "goat"
                        THEN parseToolInput(toolSchemaMap, calls[c].name,
                                            calls[c].args).value
                        ELSE calls[c].args

\* A Goat call and a native call (not of the first native tool) have both
\* returned.
C5_Witness ==
    /\ \E c \in DOMAIN calls :
        calls[c].outcome = "returned" /\ calls[c].provider = "goat"
    /\ \E c \in DOMAIN calls :
        /\ calls[c].outcome = "returned"
        /\ calls[c].provider = "native"
        /\ calls[c].name = "get_block"

\* Two descriptors of the aggregation carry the same name.
NameCollision(list) ==
    \E i, j \in 1..Len(RegistrationOrder(list)) :
        i < j /\ RegistrationOrder(list)[i].name = RegistrationOrder(list)[j].name

\* The provider of the last descriptor carrying the name.
LaterProvider(list, name) ==
    LET order == RegistrationOrder(list)
        last == CHOOSE i \in 1..Len(order) :
                    /\ order[i].name = name
                    /\ \A j \in 1..Len(order) : order[j].name = name => j <= i
    IN  order[last].provider

\* C6: when two providers bring a tool of the same name, aggregation
\* completes without a crash, and the name is routed to the descriptor
\* registered later.
C6_CollisionLaterWins ==
    (phase \notin {"init", "listed"} /\ NameCollision(goatList)) =>
        /\ phase # "failed"
        /\ \A name \in {NameKey(goatList[i]) : i \in 1..Len(goatList)} :
                /\ name \in DOMAIN registeredTools
                /\ registeredTools[name] = LaterProvider(goatList, name)

-----------------------------------------------------------------------------
(* SpecHttp: start() in streamable-HTTP mode.  Every POST /mcp makes a     *)
(* transport of its own and connects the one shared server to it; the      *)
(* 'close' callback of its response closes the transport and the server.   *)
(* The server (the SDK's Protocol) holds one transport at a time.  The     *)
(* source pins no SDK release, and the releases differ on a connect while  *)
(* a transport is held and on where a finished call's response is written: *)
(*   "current"   connect replaces the held transport; the response is      *)
(*               written to the transport held when the call finishes;     *)
(*   "captured"  connect replaces the held transport; the response is      *)
(*               written to the transport held when the call arrived;      *)
(*   "exclusive" connect throws while a transport is held.                 *)

NumRequests == 3

SdkVariants == {"current", "captured", "exclusive"}

\* A request that has not arrived.  Of its response: whether the headers
\* were sent, how many times a response was begun, the status and the
\* JSON-RPC error code of the first one; threw is where the POST handler's
\* try block threw, if it did.
IdleRequest ==
    [pos |-> "idle", connected |-> FALSE, recv |-> "none", method |-> "none",
     headersSent |-> FALSE, responses |-> 0, status |-> 0, code |-> 0,
     threw |-> "no"]

InitHttp ==
    /\ sdk \in SdkVariants
    /\ slot = 0
    /\ reqs = [r \in 1..NumRequests |-> IdleRequest]
    /\ toolSchemaMap = NoMap
    /\ SchemaIdle
    /\ ServerIdle
    /\ NetIdle
    /\ RegIdle

\* The catch block when it answers whatever was sent before.
InternalError_Always(req) ==
    [req EXCEPT !.headersSent = TRUE, !.responses = @ + 1,
                !.status = IF @ = 0 THEN 500 ELSE @,
                !.code = IF @ = 0 THEN -32603 ELSE @]

\* The catch block of app.post("/mcp"): the 500 response, with the
\* JSON-RPC code -32603, when no headers were sent.
InternalError(req) ==
    IF req.headersSent THEN req
    ELSE [req EXCEPT !.headersSent = TRUE, !.responses = @ + 1,
                     !.status = IF @ = 0 THEN 500 ELSE @,
                     !.code = IF @ = 0 THEN -32603 ELSE @]

\* transport.handleRequest begins the response: status 200 and the headers
\* of the stream the result of the call is written to.
StreamOpened(req) ==
    [req EXCEPT !.headersSent = TRUE, !.responses = @ + 1, !.status = 200]

\* app.post("/mcp"): the transport, the 'close' listener, server.connect
\* and transport.handleRequest, which hands the call to the server; or the
\* catch block when connect or handleRequest throws, before or after
\* handleRequest sent the headers.
Post(r) ==
    /\ reqs[r].pos = "idle"
    /\ LET req == [IdleRequest EXCEPT !.method = "POST"]
       IN  IF sdk = "exclusive" /\ slot # 0
           THEN /\ reqs' = [reqs EXCEPT ![r] =
                        [InternalError([req EXCEPT !.threw = "before"])
                            EXCEPT !.pos = "failed", !.recv = "500"]]
                /\ slot' = slot
           ELSE /\ \/ reqs' = [reqs EXCEPT ![r] =
                        [StreamOpened(req) EXCEPT !.pos = "running",
                                                  !.connected = TRUE]]
                   \/ reqs' = [reqs EXCEPT ![r] =
                        [InternalError([req EXCEPT !.threw = "before"])
                            EXCEPT !.pos = "failed", !.connected = TRUE,
                                   !.recv = "500"]]
                   \/ reqs' = [reqs EXCEPT ![r] =
                        [InternalError([StreamOpened(req) EXCEPT !.threw = "after"])
                            EXCEPT !.pos = "running", !.connected = TRUE]]
                /\ slot' = r
    /\ UNCHANGED <<sdk, toolSchemaMap>>
    /\ UNCHANGED <<schemaVars, serverVars, netVars, regVars>>

\* app.get('/mcp') and app.delete('/mcp'): res.writeHead(405) and the
\* JSON-RPC error -32000; nothing of the server is touched.
MethodNotAllowed(r) ==
    /\ reqs[r].pos = "idle"
    /\ \E method \in {"GET", "DELETE"} :
        reqs' = [reqs EXCEPT ![r] =
                    [IdleRequest EXCEPT !.pos = "refused", !.method = method,
                                        !.headersSent = TRUE, !.responses = 1,
                                        !.status = 405, !.code = -32000]]
    /\ UNCHANGED <<sdk, slot, toolSchemaMap>>
    /\ UNCHANGED <<schemaVars, serverVars, netVars, regVars>>

\* The tool call of request r finishes and the server writes its response:
\* to r's own transport, to no transport, or to the transport of another
\* request, whose client takes it for its own answer when the two calls
\* carry the same JSON-RPC id.
ToolCompletes(r) ==
    /\ reqs[r].pos = "running"
    /\ LET via == IF sdk = "current" THEN slot ELSE r
       IN  IF via = r
           THEN reqs' = [reqs EXCEPT ![r].pos = "sent", ![r].recv = "own"]
           ELSE IF via = 0 \/ reqs[via].pos # "running"
           THEN reqs' = [reqs EXCEPT ![r].pos = "lost"]
           ELSE \E sameId \in BOOLEAN :
                    reqs' = IF sameId
                            THEN [reqs EXCEPT ![r].pos = "lost",
                                              ![via].pos = "sent",
                                              ![via].recv = "foreign"]
                            ELSE [reqs EXCEPT ![r].pos = "lost"]
    /\ UNCHANGED <<sdk, slot, toolSchemaMap>>
    /\ UNCHANGED <<schemaVars, serverVars, netVars, regVars>>

\* res.on('close'): transport.close(), which tells the server its
\* connection is gone when the transport was connected, then
\* server.close(), which closes whatever transport the server still holds.
Close(r) ==
    /\ reqs[r].pos \in {"running", "lost", "sent", "failed", "cut"}
    /\ LET held == IF reqs[r].connected THEN 0 ELSE slot
       IN  /\ reqs' = [q \in 1..NumRequests |->
                    IF q = r THEN [reqs[q] EXCEPT !.pos = "closed"]
                    ELSE IF q = held /\ reqs[q].pos = "running"
                         THEN [reqs[q] EXCEPT !.pos = "cut"]
                    ELSE reqs[q]]
           /\ slot' = 0
    /\ UNCHANGED <<sdk, toolSchemaMap>>
    /\ UNCHANGED <<schemaVars, serverVars, netVars, regVars>>

NextHttp ==
    \/ \E r \in 1..NumRequests : Post(r)
    \/ \E r \in 1..NumRequests : MethodNotAllowed(r)
    \/ \E r \in 1..NumRequests : ToolCompletes(r)
    \/ \E r \in 1..NumRequests : Close(r)

SpecHttp == InitHttp /\ [][NextHttp]_vars

\* C8: with several POST /mcp requests in flight on the shared server, the
\* completion, failure or close of one never disconnects another, never
\* loses or replaces another's result and never makes another fail: every
\* request either is still served, was closed by its own client, or got its
\* own result.
C8_CallsAreIsolated ==
    \A r \in DOMAIN reqs :
        /\ reqs[r].recv \in {"none", "own"}
        /\ reqs[r].pos \notin {"lost", "cut"}

-----------------------------------------------------------------------------
(* SpecNet: the callbacks of the network-backed tools (get_account,        *)
(* get_transaction, get_block, get_priority_fee): an AbortController with  *)
(* a timer, then fetch and the reading of the body inside try / catch /    *)
(* finally; the dispatcher callback copies the content it is given.        *)

NetCalls == 2

NetTools == {"get_account", "get_transaction", "get_block", "get_priority_fee"}

\* The `message` of the payload returned when the body is null.
NotFoundMessage(tool) ==
    CASE tool = "get_account" -> "Account not found (or revision not available)"
      [] tool = "get_transaction" -> "Transaction not found"
      [] tool = "get_block" -> "Block not found"
      [] OTHER -> ""

\* A callback that has not been entered.
IdleNet ==
    [pos |-> "idle", tool |-> "", timer |-> "none", firedAt |-> "none",
     outcome |-> "none", payload |-> Undef, content |-> <<>>,
     invoked |-> 0, fetches |-> 0, timers |-> 0]

\* The callback returns the payload when no finally block clears the timer.
NetReturn_LeavesTimer(call, payload) ==
    LET result == Content(JSON_stringify(payload).text)
    IN  [call EXCEPT !.pos = "done",
                     !.outcome = "returned",
                     !.payload = payload,
                     !.content = [i \in 1..Len(result) |->
                                    [result[i] EXCEPT !.type = "text"]]]

\* The callback returns the payload as its one text item, after the finally
\* block's clearTimeout; the dispatcher callback copies the item.
NetReturn(call, payload) ==
    LET result == Content(JSON_stringify(payload).text)
    IN  [call EXCEPT !.pos = "done",
                     !.timer = IF @ = "armed" THEN "cleared" ELSE @,
                     !.outcome = "returned",
                     !.payload = payload,
                     !.content = [i \in 1..Len(result) |->
                                    [result[i] EXCEPT !.type = "text"]]]

InitNet ==
    /\ net = [n \in 1..NetCalls |-> IdleNet]
    /\ toolSchemaMap = NoMap
    /\ SchemaIdle
    /\ ServerIdle
    /\ HttpIdle
    /\ RegIdle

\* The callback up to `await fetch(url, { signal })`: the controller and
\* its timer are set up and the request is sent.
NetStart(n) ==
    /\ net[n].pos = "idle"
    /\ \E tool \in NetTools :
        net' = [net EXCEPT ![n] =
                    [IdleNet EXCEPT !.pos = "fetch", !.tool = tool, !.timer = "armed",
                                    !.invoked = 1, !.fetches = 1, !.timers = 1]]
    /\ UNCHANGED <<toolSchemaMap, schemaVars, serverVars, httpVars, regVars>>

\* fetch resolves with a response; the callback goes on to res.json() when
\* res.ok, to res.text() otherwise.
FetchResponds(n) ==
    /\ net[n].pos = "fetch"
    /\ net[n].timer = "armed"
    /\ \E ok \in BOOLEAN :
        net' = [net EXCEPT ![n].pos = IF ok THEN "json" ELSE "text"]
    /\ UNCHANGED <<toolSchemaMap, schemaVars, serverVars, httpVars, regVars>>

\* fetch rejects with a network error, when the callback sends the request
\* once more before it gives up.
FetchFails_Retries(n) ==
    /\ net[n].pos = "fetch"
    /\ net[n].timer = "armed"
    /\ net' = [net EXCEPT ![n] =
                IF @.fetches < 2 THEN [@ EXCEPT !.fetches = @ + 1]
                ELSE NetReturn(@, ErrorPayload(FALSE, ErrorLabel(@.tool), "fetch failed"))]
    /\ UNCHANGED <<toolSchemaMap, schemaVars, serverVars, httpVars, regVars>>

\* fetch rejects with a network error.
FetchFails(n) ==
    /\ net[n].pos = "fetch"
    /\ net[n].timer = "armed"
    /\ net' = [net EXCEPT ![n] =
                NetReturn(@, ErrorPayload(FALSE, ErrorLabel(@.tool), "fetch failed"))]
    /\ UNCHANGED <<toolSchemaMap, schemaVars, serverVars, httpVars, regVars>>

\* The body is read: res.json() gives the data, null, or a SyntaxError;
\* res.text() gives the text of the error the callback then throws.
BodyArrives(n) ==
    /\ net[n].pos \in {"json", "text"}
    /\ net[n].timer = "armed"
    /\ IF net[n].pos = "text"
       THEN net' = [net EXCEPT ![n] =
                NetReturn(@, ErrorPayload(FALSE, ErrorLabel(@.tool),
                                "VeChain node responded 404 Not Found: gone"))]
       ELSE \/ \E data \in {JO([id |-> JS("0x01")]), JNull} :
                net' = [net EXCEPT ![n] =
                    NetReturn(@, IF data = JNull /\ @.tool # "get_priority_fee"
                                 THEN JO([message |-> JS(NotFoundMessage(@.tool))])
                                 ELSE data)]
            \/ net' = [net EXCEPT ![n] =
                    NetReturn(@, ErrorPayload(FALSE, ErrorLabel(@.tool),
                                    "Unexpected end of JSON input"))]
    /\ UNCHANGED <<toolSchemaMap, schemaVars, serverVars, httpVars, regVars>>

\* The timer's callback: controller.abort().
TimerFires(n) ==
    /\ net[n].timer = "armed"
    /\ net[n].pos \in {"fetch", "json", "text"}
    /\ net' = [net EXCEPT ![n].timer = "fired", ![n].firedAt = net[n].pos]
    /\ UNCHANGED <<toolSchemaMap, schemaVars, serverVars, httpVars, regVars>>

\* The pending promise rejects with the AbortError.  From fetch or
\* res.json() it reaches the catch block, where isAbort holds; from
\* res.text() it is swallowed by .catch(() => ""), and the Error thrown
\* next reaches the catch block, where isAbort does not hold.
AbortSettles_NotAbort(n) ==
    /\ net[n].timer = "fired"
    /\ net[n].pos \in {"fetch", "json", "text"}
    /\ net' = [net EXCEPT ![n] =
                NetReturn(@, ErrorPayload(FALSE, ErrorLabel(@.tool),
                                "This operation was aborted"))]
    /\ UNCHANGED <<toolSchemaMap, schemaVars, serverVars, httpVars, regVars>>

AbortSettles(n) ==
    /\ net[n].timer = "fired"
    /\ net[n].pos \in {"fetch", "json", "text"}
    /\ net' = [net EXCEPT ![n] =
                IF @.pos = "text"
                THEN NetReturn(@, ErrorPayload(FALSE, ErrorLabel(@.tool),
                                "VeChain node responded 500 Internal Server Error"))
                ELSE NetReturn(@, ErrorPayload(TRUE, ErrorLabel(@.tool),
                                "This operation was aborted"))]
    /\ UNCHANGED <<toolSchemaMap, schemaVars, serverVars, httpVars, regVars>>

NextNet ==
    \/ \E n \in 1..NetCalls : NetStart(n)
    \/ \E n \in 1..NetCalls : FetchResponds(n)
    \/ \E n \in 1..NetCalls : FetchFails(n)
    \/ \E n \in 1..NetCalls : BodyArrives(n)
    \/ \E n \in 1..NetCalls : TimerFires(n)
    \/ \E n \in 1..NetCalls : AbortSettles(n)

\* The event loop runs a timer that is due and the continuation of a
\* promise that has settled.
SpecNet ==
    /\ InitNet
    /\ [][NextNet]_vars
    /\ \A n \in 1..NetCalls : WF_vars(TimerFires(n)) /\ WF_vars(AbortSettles(n))

\* The call ended with a well-formed envelope whose payload has the error
\* "Request timed out": one item of type "text" whose text is the payload.
TimedOutEnvelope(n) ==
    /\ net[n].pos = "done"
    /\ net[n].outcome = "returned"
    /\ Get(net[n].payload, "error") = JS("Request timed out")
    /\ Len(net[n].content) = 1
    /\ net[n].content[1].type = "text"
    /\ net[n].content[1].text = JSON_stringify(net[n].payload).text
    /\ net[n].content[1].text.t = "string"

-----------------------------------------------------------------------------
(* SpecRegistry: buildToolZodMap on a list of descriptors, then            *)
(* parseToolInput for a name and raw arguments against the map it built.   *)

MaxTools == 3

\* Descriptors a list may hold: a tool with a schema document, a tool whose
\* document makes the compiler raise, tools whose schema is a pre-built
\* validator, a tool without inputSchema, a string, and null.
ToolA ==
    JO([name |-> JS("a"),
        inputSchema |-> MkDoc(JS("object"), JO([to |-> StringDoc]),
                              JA(<<JS("to")>>), Undef)])

\* A second descriptor with the name of ToolA.
ToolAAgain ==
    JO([name |-> JS("a"),
        inputSchema |-> MkDoc(JS("object"), JO([q |-> StringDoc]), Undef, Undef)])

ToolRaising ==
    JO([name |-> JS("b"),
        inputSchema |-> MkDoc(JS("object"),
                              JO([a |-> MkDoc(JS("mystery"), JO([a |-> StringDoc]),
                                              Undef, Undef)]),
                              Undef, Undef)])

ToolZodObject == JO([name |-> JS("c"), inputSchema |-> JValidator("zobj")])

ToolZodString == JO([name |-> JS("d"), inputSchema |-> JValidator("zstr")])

ToolBare == JO([name |-> JS("e")])

Descriptors ==
    { ToolA, ToolAAgain, ToolRaising, ToolZodObject, ToolZodString, ToolBare,
      JS("x"), JNull }

RECURSIVE ListsUpTo(_)
ListsUpTo(n) ==
    IF n = 0 THEN {<<>>}
    ELSE ListsUpTo(n - 1)
            \cup {Append(l, d) : l \in {m \in ListsUpTo(n - 1) : Len(m) = n - 1},
                                 d \in Descriptors}

\* The names parseToolInput is called with: the listed ones and one that no
\* list holds.
RegNames == {"a", "b", "c", "d", "e", "doesNotExist"}

\* The raw arguments parseToolInput is called with.
RegInputs ==
    { Undef, JNull, JS("u"), JO(NoF),
      JO([to |-> JS("0xabc")]), JO([to |-> JN(1)]),
      JO([q |-> JS("u")]), JO([a |-> JS("u"), x |-> JS("extra")]) }

InitRegistry ==
    /\ regBuild \in {[IdleReg EXCEPT !.pos = "start", !.list = l] :
                        l \in ListsUpTo(MaxTools)}
    /\ toolSchemaMap = NoMap
    /\ SchemaIdle
    /\ ServerIdle
    /\ HttpIdle
    /\ NetIdle

\* buildToolZodMap(listOfTools): the map, or the exception that leaves it.
BuildAll ==
    /\ regBuild.pos = "start"
    /\ LET built == buildToolZodMap(regBuild.list)
       IN  /\ toolSchemaMap' = built.map
           /\ regBuild' = [regBuild EXCEPT
                                !.pos = IF built.threw THEN "threw" ELSE "built",
                                !.threw = built.threw]
    /\ UNCHANGED <<schemaVars, serverVars, httpVars, netVars>>

\* parseToolInput(toolSchemaMap, toolName, input)
ResolveCall ==
    /\ regBuild.pos = "built"
    /\ \E name \in RegNames, input \in RegInputs :
        regBuild' = [regBuild EXCEPT
                        !.pos = "resolved", !.name = name, !.input = input,
                        !.result = parseToolInput(toolSchemaMap, name, input)]
    /\ UNCHANGED <<toolSchemaMap, schemaVars, serverVars, httpVars, netVars>>

NextRegistry == BuildAll \/ ResolveCall

SpecRegistry == InitRegistry /\ [][NextRegistry]_vars

\* The compilation of the descriptor raises.
Raises(t) ==
    jsonSchemaToZodRoot(Coalesce(Get(t, "inputSchema"), t)).z = "RangeError"

\* The validator the loop body stores for descriptor t when nothing fails.
NormalValidator(t) == BuildOne(NoMap, t)[NameKey(t)]

\* The last descriptor of the list that carries the name.
LastOf(list, name) ==
    list[CHOOSE i \in 1..Len(list) :
            /\ NameKey(list[i]) = name
            /\ \A j \in 1..Len(list) : NameKey(list[j]) = name => j <= i]

\* C11: for every list of descriptors, also one holding a descriptor whose
\* compilation raises or that is null or malformed, the build ends without
\* raising; every tool whose compilation does not raise has its normally
\* compiled validator, and a tool whose compilation raises has a validator
\* that accepts every argument object.
C11_BuildIsolatesFailures ==
    regBuild.pos \in {"built", "threw", "resolved"} =>
        /\ ~regBuild.threw
        /\ \A i \in 1..Len(regBuild.list) :
            LET name == NameKey(regBuild.list[i])
                t == LastOf(regBuild.list, name)
            IN  /\ name \in DOMAIN toolSchemaMap
                /\ ~Raises(t) => toolSchemaMap[name] = NormalValidator(t)
                /\ Raises(t) =>
                    \A input \in {v \in RegInputs : v.t = "object"} :
                        ZParse(toolSchemaMap[name], input, <<>>).ok

\* C12: a tool whose schema is already a validator, of any kind, has that
\* same validator in the registry, and resolve accepts exactly the inputs
\* the validator accepts (absent arguments counted as an empty object).
C12_NativeValidatorUsedAsIs ==
    regBuild.pos \in {"built", "resolved"} =>
        \A i \in 1..Len(regBuild.list) :
            LET name == NameKey(regBuild.list[i])
                schema == Get(LastOf(regBuild.list, name), "inputSchema")
            IN  schema.t = "validator" =>
                    /\ toolSchemaMap[name] = NativeZod(schema.s)
                    /\ (regBuild.pos = "resolved" /\ regBuild.name = name) =>
                            (regBuild.result.threw <=>
                                ~ZParse(NativeZod(schema.s),
                                        Coalesce(regBuild.input, JO(NoF)), <<>>).ok)

-----------------------------------------------------------------------------
(* Claims about string fields whose pattern is not a regular expression.   *)

\* The document declares the one field a, as a string whose pattern does
\* not compile.
HasBadPatternField(d) ==
    /\ IsObjectDoc(d)
    /\ DeclaredNames(d) = {"a"}
    /\ Get(Get(d, "properties"), "a").t = "object"
    /\ Get(Get(Get(d, "properties"), "a"), "type") = JS("string")
    /\ Get(Get(Get(d, "properties"), "a"), "pattern") = JS(BadPattern)

\* The string s meets the minLength and maxLength of the field document.
MeetsLengths(fieldDoc, s) ==
    /\ IsNumber(Get(fieldDoc, "minLength")) =>
            2 * Len(s) >= Get(fieldDoc, "minLength").n
    /\ IsNumber(Get(fieldDoc, "maxLength")) =>
            2 * Len(s) <= Get(fieldDoc, "maxLength").n

\* C13: a string schema whose pattern does not compile as a regular
\* expression still compiles, and its validator accepts every string that
\* meets the minimum and maximum length and rejects every other value.
C13_BadPatternIsIgnored ==
    HasBadPatternField(doc) =>
        /\ spc # "threw"
        /\ (spc = "resolved" /\ HasKey(rawInput, "a")) =>
                (~resolved.threw <=>
                    /\ Get(rawInput, "a").t = "string"
                    /\ MeetsLengths(Get(Get(doc, "properties"), "a"),
                                    Get(rawInput, "a").s))

\* A one-letter string went through a field of lengths 1 to 2 whose pattern
\* does not compile.
C13_Witness ==
    /\ HasBadPatternField(doc)
    /\ IsNumber(Get(Get(Get(doc, "properties"), "a"), "minLength"))
    /\ spc = "resolved"
    /\ Get(rawInput, "a") = JS("u")
    /\ ~resolved.threw

\* C14: resolving the arguments of a name that has no entry in the registry
\* returns the empty object for every raw input and raises nothing; for a
\* name that has an entry, null or undefined arguments are validated as the
\* empty object.
C14_NoEntryGivesEmptyObject ==
    regBuild.pos = "resolved" =>
        /\ regBuild.name \notin DOMAIN toolSchemaMap =>
                regBuild.result = Returned(JO(NoF))
        /\ (regBuild.name \in DOMAIN toolSchemaMap
                /\ regBuild.input \in {Undef, JNull}) =>
                LET onEmpty == ZParse(toolSchemaMap[regBuild.name], JO(NoF), <<>>)
                IN  /\ regBuild.result.threw <=> ~onEmpty.ok
                    /\ ~regBuild.result.threw =>
                            regBuild.result.value = onEmpty.val

\* Arguments that no validator of the registry accepts were resolved for a
\* name the registry, which is not empty, has no entry for.
C14_Witness ==
    /\ regBuild.pos = "resolved"
    /\ toolSchemaMap # NoMap
    /\ regBuild.name = "doesNotExist"
    /\ regBuild.input = JS("u")
    /\ regBuild.result = Returned(JO(NoF))

-----------------------------------------------------------------------------
(* Claims about the message of a validation failure.                       *)

\* The keys of an issue's path written with a dot between them.
RECURSIVE Dotted(_)
Dotted(path) ==
    IF Len(path) = 1 THEN path[1]
    ELSE Dotted(SubSeq(path, 1, Len(path) - 1)) \o "." \o path[Len(path)]

\* The entry the message has for one issue of the validator.
ExpectedEntry(issue) ==
    (IF issue.path = <<>> THEN "<root>" ELSE Dotted(issue.path))
        \o ": " \o issue.message

\* The entries, in order, with "; " between them.
RECURSIVE JoinedEntries(_)
JoinedEntries(entries) ==
    IF entries = <<>> THEN ""
    ELSE IF Len(entries) = 1 THEN entries[1]
    ELSE JoinedEntries(SubSeq(entries, 1, Len(entries) - 1))
            \o "; " \o entries[Len(entries)]

\* The fields of the tool's validator that the raw input fails.
FailingFields(zv, input) ==
    IF input.t # "object" THEN {}
    ELSE {k \in DOMAIN zv.shape : ~ZParse(zv.shape[k], Get(input, k), <<k>>).ok}

\* C15: when validation fails, resolve raises one error whose message names
\* the tool and lists every failing field: one `path: reason` entry per
\* issue, the keys of a nested path joined by ".", the root written "<root>",
\* the entries joined by "; ".
C15_MessageListsEveryIssue ==
    (spc = "resolved" /\ resolved.threw) =>
        LET zv == toolSchemaMap[ToolName]
            input == Coalesce(rawInput, JO(NoF))
            issues == ZParse(zv, input, <<>>).issues
            entries == [i \in 1..Len(issues) |-> ExpectedEntry(issues[i])]
        IN  /\ issues # <<>>
            /\ resolved.text = "Input validation failed for tool \"" \o ToolName
                                    \o "\": " \o JoinedEntries(entries)
            /\ \A k \in FailingFields(zv, input) :
                    \E i \in 1..Len(issues) : issues[i].path[1] = k
            /\ input.t # "object" => resolved.details[1].path = "<root>"

\* A call failed on a nested field and on a field of the root, and the
\* message has an entry for each.
C15_Witness ==
    /\ spc = "resolved"
    /\ resolved.threw
    /\ Len(resolved.details) = 2
    /\ resolved.details[1].path = "a.a"
    /\ resolved.details[2].path = "b"

-----------------------------------------------------------------------------
(* Claims about the server after startup.                                  *)

\* The names registered for the Goat provider.
GoatNames == {n \in DOMAIN registeredTools : registeredTools[n] = "goat"}

\* C16: the schema of each tool is compiled exactly once, while the server
\* is created; however many calls are made, and in whatever order, none of
\* them compiles a schema.
C16_CompiledOnceAtStartup ==
    phase = "serving" =>
        \A name \in GoatNames :
            /\ name \in DOMAIN compileCount
            /\ compileCount[name] = 1

\* Every call has been made and has ended, two of them on the same Goat
\* tool, whose schema was compiled once.
C16_Witness ==
    /\ phase = "serving"
    /\ \A c \in 1..MaxCalls :
        /\ calls[c].pos = "done"
        /\ calls[c].provider = "goat"
        /\ calls[c].name = calls[1].name
    /\ compileCount[calls[1].name] = 1

\* C17: once the server is created, the registry, the registered tools and
\* the catalog are read-only: no step of a tool call, successful or failing,
\* adds, removes or replaces an entry, and the raw arguments a call was
\* entered with stay as they were.
C17_ReadOnlyAfterAggregation ==
    [][(phase = "created" \/ phase = "serving") =>
        (/\ toolSchemaMap' = toolSchemaMap
         /\ registeredTools' = registeredTools
         /\ catalog' = catalog
         /\ \A c \in 1..MaxCalls :
                (calls[c].pos # "idle" => calls'[c].args = calls[c].args))]_vars

\* A call on a Goat tool was rejected for its arguments and another one
\* returned, and the registry has the entry it was built with.
C17_Witness ==
    /\ phase = "serving"
    /\ \E c, d \in 1..MaxCalls :
        /\ calls[c].provider = "goat" /\ calls[c].outcome = "threw"
        /\ calls[d].provider = "goat" /\ calls[d].outcome = "returned"
        /\ calls[c].name = calls[d].name
        /\ toolSchemaMap[calls[c].name] = BuildOne(NoMap, goatList[1])[calls[c].name]

\* C18: every tool call that returns, for either provider and for every
\* value the handler resolves with, returns a content in which every item
\* has type "text" and a text that is a string.
C18_EveryItemIsText ==
    \A c \in 1..MaxCalls :
        calls[c].outcome = "returned" =>
            \A i \in 1..Len(calls[c].content) :
                /\ calls[c].content[i].type = "text"
                /\ calls[c].content[i].text.t = "string"

\* The texts a catch block of a native tool writes: JSON of an object with
\* the strings error and reason.
ErrorTexts ==
    { JSON_stringify(ErrorPayload(isAbort, ErrorLabel(name), reason)).text :
        isAbort \in BOOLEAN,
        name \in {vechainTools[i] : i \in 1..Len(vechainTools)},
        reason \in {"fetch failed", "This operation was aborted",
                     "No secure random source"} }

\* Call c has ended and did not succeed: its arguments failed validation,
\* or its handler failed.
CallFailed(c) ==
    /\ calls[c].pos = "done"
    /\ \/ calls[c].provider = "goat"
            /\ parseToolInput(toolSchemaMap, calls[c].name, calls[c].args).threw
       \/ calls[c].message # ""
       \/ \E i \in 1..Len(calls[c].content) : calls[c].content[i].text \in ErrorTexts

\* C19: whenever a tool call ends in a validation failure or in a handler
\* failure, for every tool, the call returns an envelope whose text is JSON
\* of an object with a string error and a string reason.
C19_FailureIsErrorEnvelope ==
    \A c \in 1..MaxCalls :
        CallFailed(c) =>
            /\ calls[c].outcome = "returned"
            /\ Len(calls[c].content) = 1
            /\ calls[c].content[1].text \in ErrorTexts

\* The descriptor the provider listed under the name.
DescriptorOf(name) ==
    goatList[CHOOSE i \in 1..Len(goatList) : NameKey(goatList[i]) = name]

\* The tool's schema is a schema document, not a pre-built validator.
IsSchemaDocumentTool(name) ==
    /\ \E i \in 1..Len(goatList) : NameKey(goatList[i]) = name
    /\ Get(DescriptorOf(name), "inputSchema").t = "object"

\* C20: for every tool whose schema is a schema document, the inputSchema
\* of the catalog is the document the provider gave, echoed back, and not
\* something derived from the compiled validator.
C20_CatalogEchoesDocument ==
    phase \in {"created", "serving"} =>
        \A name \in DOMAIN catalog :
            IsSchemaDocumentTool(name) =>
                /\ catalog[name].kind = "document"
                /\ catalog[name].document = Get(DescriptorOf(name), "inputSchema")

-----------------------------------------------------------------------------
(* Claims about roots that are not object documents.                       *)

\* The root is a document, is not object-shaped, and declares a constraint
\* of its own: an enum, a const, or a primitive or array type.
IsConstraintRoot(d) ==
    /\ Truthy(d)
    /\ d.t = "object"
    /\ ~IsObjectDoc(d)
    /\ \/ Get(d, "enum").t = "array"
       \/ Get(d, "const") # Undef
       \/ Get(d, "type") \in {JS("string"), JS("number"), JS("integer"),
                              JS("boolean"), JS("array")}

\* The root has no usable shape: it is absent, null, or a document with
\* neither a constraint nor properties.
IsShapelessRoot(d) ==
    \/ d.t \in {"undefined", "null"}
    \/ d.t = "object" /\ ~IsObjectDoc(d) /\ ~IsConstraintRoot(d)

\* C21: the validator compiled for a root that is not object-shaped (an
\* enum, const, primitive or array root) is an object validator with a named
\* field that holds the root's constraint; the validator compiled for a root
\* with no usable shape accepts the empty object and any object.
C21_NonObjectRootIsWrapped ==
    spc = "compiled" =>
        /\ IsConstraintRoot(doc) =>
                /\ compiled.z = "object"
                /\ \E k \in DOMAIN compiled.shape :
                        compiled.shape[k] \in { jsonSchemaPropToZod(doc),
                                                ZOptional(jsonSchemaPropToZod(doc)) }
        /\ IsShapelessRoot(doc) =>
                /\ compiled.z = "object"
                /\ \A input \in {JO(NoF), JO([a |-> JN(1), x |-> JS("extra")])} :
                        ZParse(compiled, input, <<>>).ok

-----------------------------------------------------------------------------
(* Claims about the wallet tools.                                          *)

\* The fields of a payload that hold the private key.
SecretFields == {"secretKey", "secretKeyHex"}

\* C22: the response of create_wallet holds the private key, as secretKey or
\* as secretKeyHex, only when the caller passed includeSecret = true.
C22_SecretIsRedactedByDefault ==
    \A c \in 1..MaxCalls :
        (/\ calls[c].name = "create_wallet"
         /\ calls[c].outcome = "returned"
         /\ Get(calls[c].args, "includeSecret") # JTrue) =>
            \A payload \in create_wallet_Payloads :
                calls[c].content[1].text = JSON_stringify(payload).text =>
                    DOMAIN payload.f \cap SecretFields = {}

-----------------------------------------------------------------------------
(* Claims about the /mcp routes.                                           *)

-----------------------------------------------------------------------------
(* Claims about the requests and the timers of the network-backed tools.   *)

\* The call ended with the payload of the catch block.
EndedInError(n) ==
    /\ net[n].pos = "done"
    /\ Get(net[n].payload, "error").t = "string"

-----------------------------------------------------------------------------
(* Claims about the validators of the node kinds.                          *)

\* The document declares the one field a; its document.
HasOneField(d) == IsObjectDoc(d) /\ DeclaredNames(d) = {"a"}
FieldDoc(d) == Get(Get(d, "properties"), "a")

\* The values an enum or const node lists.
Members(node) ==
    IF Get(node, "enum").t = "array"
    THEN {Get(node, "enum").e[i] : i \in 1..Len(Get(node, "enum").e)}
    ELSE {Get(node, "const")}

\* C25: a node that declares enum accepts a value if and only if the value
\* equals a member of the set (an empty set accepts nothing) and a node that
\* declares const accepts exactly that value; the declared type of such a
\* node is not applied.
C25_EnumAndConstByEquality ==
    (/\ spc = "resolved"
     /\ HasOneField(doc)
     /\ Truthy(FieldDoc(doc))
     /\ Get(FieldDoc(doc), "enum").t = "array" \/ Get(FieldDoc(doc), "const") # Undef
     /\ HasKey(rawInput, "a")) =>
        (~resolved.threw <=> Get(rawInput, "a") \in Members(FieldDoc(doc)))

\* The field a is a string node, with no enum and no const, whose pattern
\* compiles.
HasPatternField(d) ==
    /\ HasOneField(d)
    /\ Truthy(FieldDoc(d))
    /\ Get(FieldDoc(d), "enum") = Undef /\ Get(FieldDoc(d), "const") = Undef
    /\ Get(FieldDoc(d), "type") = JS("string")
    /\ Get(FieldDoc(d), "pattern").t = "string"
    /\ RegexCompiles(Get(FieldDoc(d), "pattern").s)

\* C26: a string field with a pattern that compiles accepts a value if and
\* only if it is a string, its length is within minLength and maxLength and
\* it matches the pattern; when it does not, resolve raises a validation
\* failure that mentions the field.
C26_PatternAndLengths ==
    (spc = "resolved" /\ HasPatternField(doc) /\ HasKey(rawInput, "a")) =>
        /\ ~resolved.threw <=>
                /\ Get(rawInput, "a").t = "string"
                /\ MeetsLengths(FieldDoc(doc), Get(rawInput, "a").s)
                /\ RegexTest(Get(FieldDoc(doc), "pattern").s, Get(rawInput, "a").s)
        /\ resolved.threw =>
                \E i \in 1..Len(resolved.details) : resolved.details[i].path = "a"

\* "0xabc" was given for a required field whose pattern is that of an
\* address, and the failure names the field.
C26_Witness ==
    /\ spc = "resolved"
    /\ HasPatternField(doc)
    /\ Get(FieldDoc(doc), "pattern") = JS(AddrPattern)
    /\ "a" \in RequiredNames(doc)
    /\ rawInput = JO([a |-> JS("0xabc")])
    /\ resolved.threw
    /\ resolved.details = <<[path |-> "a", message |-> "Invalid"]>>

\* The field a is an array node, with no enum and no const.
HasArrayField(d) ==
    /\ HasOneField(d)
    /\ Truthy(FieldDoc(d))
    /\ Get(FieldDoc(d), "enum") = Undef /\ Get(FieldDoc(d), "const") = Undef
    /\ Get(FieldDoc(d), "type") = JS("array")

\* The array has a number of items minItems and maxItems allow.
MeetsItemCounts(node, items) ==
    /\ IsNumber(Get(node, "minItems")) => 2 * Len(items) >= Get(node, "minItems").n
    /\ IsNumber(Get(node, "maxItems")) => 2 * Len(items) <= Get(node, "maxItems").n

\* The element passes the validator of the node's items, when it has one.
ElementPasses(node, element) ==
    Truthy(Get(node, "items")) =>
        ZParse(jsonSchemaPropToZod(Get(node, "items")), element, <<>>).ok

\* C27: an array node accepts a value if and only if it is an array, its
\* number of items is within minItems and maxItems, and every element passes
\* the validator compiled from items (every element passes when there is no
\* items); the elements are returned as given, an object element with its
\* unlisted fields.
C27_ArrayOfCompiledItems ==
    (spc = "resolved" /\ HasArrayField(doc) /\ HasKey(rawInput, "a")) =>
        LET value == Get(rawInput, "a")
        IN  /\ ~resolved.threw <=>
                /\ value.t = "array"
                /\ MeetsItemCounts(FieldDoc(doc), value.e)
                /\ \A i \in 1..Len(value.e) : ElementPasses(FieldDoc(doc), value.e[i])
            /\ ~resolved.threw => Get(resolved.value, "a") = value

\* An array of one object, which has a field its items do not list, went
\* through an array node that asks for one item at least.
C27_Witness ==
    /\ spc = "resolved"
    /\ HasArrayField(doc)
    /\ IsNumber(Get(FieldDoc(doc), "minItems"))
    /\ ~resolved.threw
    /\ Get(resolved.value, "a") = JA(<<JO([a |-> JS("u"), x |-> JS("extra")])>>)

-----------------------------------------------------------------------------
(* Claims about the entries of the registry.                               *)

\* The names of the descriptors of the list.
NamesOf(list) == {NameKey(list[i]) : i \in 1..Len(list)}

\* What the root compiler gives for the descriptor.
CompiledFor(t) == jsonSchemaToZodRoot(Coalesce(Get(t, "inputSchema"), t))

\* C28: when buildToolZodMap has returned, the registry has exactly one
\* entry for each distinct name of the list, every entry is an object
\* validator, the entry of a repeated name is that of its last descriptor,
\* and a compiled result that is not an object validator has been replaced
\* by the empty object validator; no name of the list is missing.
C28_RegistryHoldsObjectValidators ==
    regBuild.pos \in {"built", "resolved"} =>
        /\ DOMAIN toolSchemaMap = NamesOf(regBuild.list)
        /\ \A name \in DOMAIN toolSchemaMap :
            LET zv == CompiledFor(LastOf(regBuild.list, name))
            IN  /\ toolSchemaMap[name].z = "object"
                /\ toolSchemaMap[name] =
                        IF zv.z = "object" THEN zv ELSE ZObject(NoF, "strip")

\* A registry was built from a list that has two descriptors for one name
\* and a validator that is not an object validator.
C28_Witness ==
    /\ regBuild.pos = "built"
    /\ regBuild.list = <<ToolA, ToolZodString, ToolAAgain>>
    /\ toolSchemaMap["a"] = CompiledFor(ToolAAgain)
    /\ toolSchemaMap["d"] = ZObject(NoF, "strip")

-----------------------------------------------------------------------------
(* Claims about startup.                                                   *)

\* A request has been served: a callback was entered.
SomeCallMade == \E c \in 1..MaxCalls : calls[c].pos # "idle"

\* The list was fetched, the registry built from it, and every tool of both
\* providers registered.
StartupComplete ==
    /\ phase = "serving"
    /\ DOMAIN toolSchemaMap = {NameKey(goatList[i]) : i \in 1..Len(goatList)}
    /\ DOMAIN registeredTools =
            {NameKey(goatList[i]) : i \in 1..Len(goatList)}
                \cup {vechainTools[i] : i \in 1..Len(vechainTools)}

\* C30: no transport is started and no request served before the list of
\* the provider was fetched, the registry built and every tool registered;
\* one transport is started, streamable HTTP if and only if
\* USE_STREAMABLE_HTTP is "true" and stdio otherwise; when the provider's
\* initialisation or a registration fails, the process exits with code 1
\* and has served nothing.
C30_StartupIsOneShot ==
    /\ (proc.transport # "none" \/ SomeCallMade) => StartupComplete
    /\ phase = "serving" =>
            proc.transport = IF proc.env = "true" THEN "http" ELSE "stdio"
    /\ phase = "failed" <=> proc.exit = 1
    /\ proc.exit = 1 =>
            /\ proc.transport = "none"
            /\ ~SomeCallMade
            /\ invocations = <<>>

\* The server runs on stdio with USE_STREAMABLE_HTTP set to "TRUE" and has
\* handled a call.
C30_Witness ==
    /\ phase = "serving"
    /\ proc.env = "TRUE"
    /\ proc.transport = "stdio"
    /\ \E c \in 1..MaxCalls : calls[c].pos = "done"

====
